---- MODULE Spec2Model ----
(***************************************************************************)
(* MiniSigGen: the waveform synthesis engine.                              *)
(*                                                                         *)
(* Two variants live in the repository:                                    *)
(*   - the settings-struct engine (WaveGen: wavegen_init, wavegen_apply,   *)
(*     on_timer), driven by the control loop of SignalGenFFT.ino;          *)
(*   - the discrete-globals engine of main_v1.ino (applyMode,              *)
(*     waveTimerCb), modelled further down.                                *)
(*                                                                         *)
(* Frequencies are floats in the source.  They are held here as integers   *)
(* counting sixteenths of a hertz: every frequency the engine computes     *)
(* (fs * step / 256 = 78.125 * step) and every rounding boundary of the    *)
(* step quantiser ((k + 0.5) * 78.125) is a whole number of sixteenths,    *)
(* and is exactly representable in binary32, so integer arithmetic on      *)
(* sixteenths gives the float results.                                     *)
(***************************************************************************)
EXTENDS Integers, Sequences, FiniteSets, TLC

Hz(n) == n * 16

\* ------------------------------------------------------------------------
\* Program constants
\* ------------------------------------------------------------------------
LUT_N == 256
PWM_MAX_HZ == 10000000
DAC_MAX_HZ == 20000
STEP_MAX == 64
PWM_DUTY_50 == 128

Waveforms == {"Sine", "Tri", "Saw", "Square"}

\* ------------------------------------------------------------------------
\* Bounds of the model
\* ------------------------------------------------------------------------
\* timer ticks that may fire in one behaviour
MaxTicks == 1
\* button presses handled in one behaviour (main_v1.ino)
MaxPresses == 4

\* Requested frequencies, in sixteenths of a hertz:
\*   0.5 Hz (below every range), 195.3125 Hz (ideal step exactly 2.5),
\*   20 MHz (above DAC_MAX_HZ and PWM_MAX_HZ).
InFreqs == {8, 3125, Hz(20000000)}
\* Waveforms the user interface requests after boot
InWaves == {"Sine", "Tri", "Square"}
\* Requested amplitudes: in range, and above 255.
InAmps == {100, 300}

\* timer ticks that may fire in a behaviour of the sample clock on its own
MaxRunTicks == 3
\* Amplitudes in force while the sample clock is observed: zero, middle, full
TickAmps == {0, 100, 255}

VARIABLES
  g,            \* static Settings g
  phase,        \* volatile uint16_t phase
  phaseStep,    \* volatile uint16_t phaseStep
  ampScale,     \* volatile uint8_t ampScale
  wf,           \* volatile Waveform wf
  tmr,          \* esp_timer_handle_t tmr: "null", or "running" once created and started
  periodUs,     \* volatile uint32_t periodUs
  lutsBuilt,    \* whether build_luts_once has filled lut_sin / lut_tri / lut_saw
  dacEnabled,   \* DAC channel 1 output enabled
  dacOut,       \* last code written by dac_output_voltage
  pwmAttached,  \* PIN_PWM_OUT attached to the LEDC channel
  pwmHz,        \* frequency the LEDC channel was set up with (whole hertz)
  pwmDuty,      \* duty written to the LEDC channel
  pc,           \* position of the control context
  arg,          \* the Settings passed to the wavegen_apply call in progress (const Settings& s)
  tpc,          \* position of the timer callback
  ticks,        \* timer ticks fired so far
  faults,       \* whether esp_timer_create may fail in this behaviour
  createFailed, \* an esp_timer_create call has returned an error
  last,         \* arguments and outcome of the last completed wavegen_apply
  repeated,     \* the last completed wavegen_apply repeated the settings of the one before
  fresh,        \* no sample has been emitted since the timer was last started
  timers,       \* esp_timer instances created and not yet deleted
  phase0,       \* value of phase when the timer was last started
  since,        \* samples emitted since the timer was last started
  tickLimit     \* timer ticks that may fire in this behaviour

\* The discrete-globals engine (main_v1.ino)
VARIABLES
  mode,          \* static WaveMode mode
  frequencyHz,   \* static float frequencyHz (whole hertz)
  amplitude,     \* static int amplitude
  waveTimer,     \* esp_timer_handle_t waveTimer: "null" or "created"
  phaseIdx,      \* volatile uint16_t phaseIdx
  timerPeriodUs, \* volatile uint32_t timerPeriodUs
  timerActive,   \* volatile bool timerActive
  timerArmed,    \* the esp_timer is started and will call waveTimerCb
  dacChEnabled,  \* DAC_CH output enabled
  dacCode,       \* last code written by dac_output_voltage
  ledcAttached,  \* SQUARE_PIN attached to the LEDC channel
  ledcHz,        \* frequency the LEDC channel was set up with
  lpc,           \* position of setup() / loop()
  cbTicks,       \* waveTimerCb calls so far
  presses        \* button presses handled so far

wgvars == <<g, phase, phaseStep, ampScale, wf, tmr, periodUs, lutsBuilt,
            dacEnabled, dacOut, pwmAttached, pwmHz, pwmDuty, pc, arg, tpc, ticks,
            faults, createFailed, last, repeated, fresh, timers, phase0, since,
            tickLimit>>

v1vars == <<mode, frequencyHz, amplitude, waveTimer, phaseIdx, timerPeriodUs,
            timerActive, timerArmed, dacChEnabled, dacCode, ledcAttached, ledcHz,
            lpc, cbTicks, presses>>

vars == <<wgvars, v1vars>>

\* ------------------------------------------------------------------------
\* Settings (fields as used by WaveGen: wave, targetHz, amp, actualHz)
\* ------------------------------------------------------------------------
Settings(w, hz, a, act) == [wave |-> w, targetHz |-> hz, amp |-> a, actualHz |-> act]

\* Settings a caller may pass to wavegen_apply
Inputs == {Settings(w, f, a, 0) : w \in InWaves, f \in InFreqs, a \in InAmps}

\* The default-constructed Settings the engine is initialised with
DefaultSettings == {Settings(w, 3125, 100, 0) : w \in {"Saw", "Square"}}

\* ------------------------------------------------------------------------
\* Sample tables (build_luts_once)
\* ------------------------------------------------------------------------
\* lut_sin[i] = (uint8_t)(127.5f + 127.5f * sinf(2 pi i / 256) + 0.5f), evaluated
\* in binary32 as the source does (entry 128 is 127: sinf of the float nearest
\* pi is slightly negative).
SineCodes == <<
  128, 131, 134, 137, 140, 143, 146, 149, 152, 155, 158, 162, 165, 167, 170, 173,
  176, 179, 182, 185, 188, 190, 193, 196, 198, 201, 203, 206, 208, 211, 213, 215,
  218, 220, 222, 224, 226, 228, 230, 232, 234, 235, 237, 238, 240, 241, 243, 244,
  245, 246, 248, 249, 250, 250, 251, 252, 253, 253, 254, 254, 254, 255, 255, 255,
  255, 255, 255, 255, 254, 254, 254, 253, 253, 252, 251, 250, 250, 249, 248, 246,
  245, 244, 243, 241, 240, 238, 237, 235, 234, 232, 230, 228, 226, 224, 222, 220,
  218, 215, 213, 211, 208, 206, 203, 201, 198, 196, 193, 190, 188, 185, 182, 179,
  176, 173, 170, 167, 165, 162, 158, 155, 152, 149, 146, 143, 140, 137, 134, 131,
  127, 124, 121, 118, 115, 112, 109, 106, 103, 100,  97,  93,  90,  88,  85,  82,
   79,  76,  73,  70,  67,  65,  62,  59,  57,  54,  52,  49,  47,  44,  42,  40,
   37,  35,  33,  31,  29,  27,  25,  23,  21,  20,  18,  17,  15,  14,  12,  11,
   10,   9,   7,   6,   5,   5,   4,   3,   2,   2,   1,   1,   1,   0,   0,   0,
    0,   0,   0,   0,   1,   1,   1,   2,   2,   3,   4,   5,   5,   6,   7,   9,
   10,  11,  12,  14,  15,  17,  18,  20,  21,  23,  25,  27,  29,  31,  33,  35,
   37,  40,  42,  44,  47,  49,  52,  54,  57,  59,  62,  65,  67,  70,  73,  76,
   79,  82,  85,  88,  90,  93,  97, 100, 103, 106, 109, 112, 115, 118, 121, 124 >>

ToU8(x) == x % 256

lut_sin(i) == SineCodes[i + 1]
lut_tri(i) == IF i < 128 THEN ToU8(i * 2) ELSE ToU8((255 - i) * 2)
lut_saw(i) == ToU8(i)

\* static tables are zero until build_luts_once has run
lut_get_sample(w, idx) ==
  IF ~lutsBuilt THEN 0
  ELSE CASE w = "Sine" -> lut_sin(idx)
         [] w = "Tri"  -> lut_tri(idx)
         [] w = "Saw"  -> lut_saw(idx)
         [] OTHER      -> 0

\* A scaling whose product is kept in 8 bits (no widening to uint16_t)
ScaleSample_NarrowProduct(raw, amp) == ToU8(ToU8(raw * amp) \div 256)

\* uint8_t out = (uint16_t(raw) * ampScale) >> 8
ScaleSample(raw, amp) == ToU8((raw * amp) \div 256)

\* ------------------------------------------------------------------------
\* Frequency mapping (configure_dac_wave, configure_square)
\* ------------------------------------------------------------------------
ClampDacHz(t) ==
  IF t < Hz(1) THEN Hz(1) ELSE IF t > Hz(DAC_MAX_HZ) THEN Hz(DAC_MAX_HZ) ELSE t

\* fs = 1000000.0f / periodUs
SampleRate(per) == 1000000 \div per

\* A quantiser that truncates instead of rounding to nearest
RoundStep_Truncating(t, fs) == (t * LUT_N) \div Hz(fs)

\* st = (uint16_t)(idealStep + 0.5f), idealStep = targetHz * LUT_N / fs
RoundStep(t, fs) == (2 * t * LUT_N + Hz(fs)) \div (2 * Hz(fs))

\* A step clamp that lacks the ceiling
ClampStep_NoCeiling(st) == IF st < 1 THEN 1 ELSE st

\* if (st < 1) st = 1; if (st > 64) st = 64;
ClampStep(st) == IF st < 1 THEN 1 ELSE IF st > STEP_MAX THEN STEP_MAX ELSE st

\* actual = fs * (phaseStep / LUT_N)
ActualHz(fs, st) == (Hz(fs) * st) \div LUT_N

ClampSquareHz(t) ==
  IF t < Hz(1) THEN Hz(1) ELSE IF t > Hz(PWM_MAX_HZ) THEN Hz(PWM_MAX_HZ) ELSE t

\* (uint32_t)targetHz
PwmFreq(t) == t \div 16

\* Settings.amp holds a non-negative integer (amplitude: integer in [0, 255],
\* in a field wide enough for the comparison with 255 to matter)
AmpRepresentable(a) == a \in Nat

\* A wavegen_apply without the amplitude clamp
ClampAmp_Missing(a) == a

\* if (g.amp > 255) g.amp = 255
ClampAmp(a) == IF a > 255 THEN 255 ELSE a

\* ------------------------------------------------------------------------
\* Observed outcome of a wavegen_apply call
\* ------------------------------------------------------------------------
Snap(act, step, amp, w, t, dac, pwm) ==
  [actualHz |-> act, phaseStep |-> step, ampScale |-> amp, wf |-> w,
   running |-> (t = "running"), dac |-> dac, pwm |-> pwm]

NoSettings == Settings("none", 0, 0, 0)

\* ------------------------------------------------------------------------
\* Initial state: the static initialisers of WaveGen, hardware untouched
\* ------------------------------------------------------------------------
InitWaveGen ==
  /\ g \in DefaultSettings
  /\ phase = 0
  /\ phaseStep = 1
  /\ ampScale = 255
  /\ wf = "Sine"
  /\ tmr = "null"
  /\ periodUs = 50
  /\ lutsBuilt = FALSE
  /\ dacEnabled = FALSE
  /\ dacOut = 0
  /\ pwmAttached = FALSE
  /\ pwmHz = 0
  /\ pwmDuty = 0
  /\ pc = "boot"
  /\ arg = NoSettings
  /\ tpc = "idle"
  /\ ticks = 0
  /\ createFailed = FALSE
  /\ last = [s |-> NoSettings, snap |-> Snap(0, 1, 255, "Sine", "null", FALSE, FALSE)]
  /\ repeated = FALSE
  /\ fresh = FALSE
  /\ timers = 0
  /\ phase0 = 0
  /\ since = 0

hw == <<dacEnabled, pwmAttached, pwmHz, pwmDuty>>
shared == <<phase, phaseStep, ampScale, wf>>
tick == <<tpc, ticks, dacOut>>
hist == <<last, repeated>>
start == <<fresh, phase0, since>>
env == <<faults, tickLimit>>

\* ------------------------------------------------------------------------
\* wavegen_init
\* ------------------------------------------------------------------------
\* build_luts_once(); pinMode(PIN_PWM_OUT, OUTPUT); dac_output_enable(DAC_CHANNEL_1);
\* then wavegen_apply(g)
wavegen_init ==
  /\ UNCHANGED v1vars
  /\ pc = "boot"
  /\ lutsBuilt' = TRUE
  /\ dacEnabled' = TRUE
  /\ arg' = g
  /\ pc' = "apply"
  /\ UNCHANGED <<g, shared, tmr, timers, periodUs, pwmAttached, pwmHz, pwmDuty, tick,
                 env, createFailed, hist, start>>

\* The control loop (setup and loop of SignalGenFFT.ino) calls wavegen_apply(st)
\* with the settings the user interface has produced.
loop_call_apply ==
  /\ UNCHANGED v1vars
  /\ pc = "idle"
  /\ \E s \in Inputs : arg' = [s EXCEPT !.actualHz = g.actualHz]
  /\ pc' = "apply"
  /\ UNCHANGED <<g, shared, tmr, timers, periodUs, lutsBuilt, hw, tick, dacOut,
                 env, createFailed, hist, start>>

\* ------------------------------------------------------------------------
\* wavegen_apply, one step per access to state the timer callback or the
\* hardware can see
\* ------------------------------------------------------------------------
\* g = s; if (g.amp > 255) g.amp = 255; ampScale = g.amp;
apply_amp ==
  /\ UNCHANGED v1vars
  /\ pc = "apply"
  /\ g' = [arg EXCEPT !.amp = ClampAmp(arg.amp)]
  /\ ampScale' = ToU8(ClampAmp(arg.amp))
  /\ pc' = "apply_wf"
  /\ UNCHANGED <<phase, phaseStep, wf, tmr, timers, periodUs, lutsBuilt, hw, arg, tick,
                 env, createFailed, hist, start>>

\* wf = g.wave; if (g.wave == Waveform::Square) ... else ...
apply_wf ==
  /\ UNCHANGED v1vars
  /\ pc = "apply_wf"
  /\ wf' = g.wave
  /\ pc' = IF g.wave = "Square" THEN "sq_stop" ELSE "dac_step"
  /\ UNCHANGED <<g, phase, phaseStep, ampScale, tmr, timers, periodUs, lutsBuilt, hw, arg,
                 tick, env, createFailed, hist, start>>

\* Two calls pass identical settings (actualHz is an output field)
SameRequest(a, b) == a.wave = b.wave /\ a.targetHz = b.targetHz /\ a.amp = b.amp

\* The bookkeeping of a returning wavegen_apply
Returned(act, step, t, dac, pwm) ==
  /\ last' = [s |-> arg, snap |-> Snap(act, step, ampScale, wf, t, dac, pwm)]
  /\ repeated' = SameRequest(arg, last.s)

\* A configure_square that leaves the sample timer alone
sq_stop_Skipped ==
  /\ UNCHANGED v1vars
  /\ pc = "sq_stop"
  /\ pc' = "sq_dacoff"
  /\ UNCHANGED <<g, shared, tmr, timers, periodUs, lutsBuilt, hw, arg, tick, env,
                 createFailed, hist, start>>

\* configure_square: dac_timer_stop()
sq_stop ==
  /\ UNCHANGED v1vars
  /\ pc = "sq_stop"
  /\ tmr' = "null"
  /\ timers' = IF tmr # "null" THEN timers - 1 ELSE timers
  /\ pc' = "sq_dacoff"
  /\ UNCHANGED <<g, shared, periodUs, lutsBuilt, hw, arg, tick, env,
                 createFailed, hist, start>>

\* configure_square: dac_output_disable(DAC_CHANNEL_1)
sq_dacoff ==
  /\ UNCHANGED v1vars
  /\ pc = "sq_dacoff"
  /\ dacEnabled' = FALSE
  /\ pc' = "sq_detach"
  /\ UNCHANGED <<g, shared, tmr, timers, periodUs, lutsBuilt, pwmAttached, pwmHz, pwmDuty,
                 arg, tick, env, createFailed, hist, start>>

\* configure_square: ledcDetachPin(PIN_PWM_OUT)
sq_detach ==
  /\ UNCHANGED v1vars
  /\ pc = "sq_detach"
  /\ pwmAttached' = FALSE
  /\ pc' = "sq_attach"
  /\ UNCHANGED <<g, shared, tmr, timers, periodUs, lutsBuilt, dacEnabled, pwmHz, pwmDuty,
                 arg, tick, env, createFailed, hist, start>>

\* configure_square: ledcSetup(PWM_CH, (uint32_t)targetHz, 8); ledcAttachPin; ledcWrite(128)
\* wavegen_apply: g.actualHz = g.targetHz
sq_attach ==
  /\ UNCHANGED v1vars
  /\ pc = "sq_attach"
  /\ pwmHz' = PwmFreq(ClampSquareHz(g.targetHz))
  /\ pwmAttached' = TRUE
  /\ pwmDuty' = PWM_DUTY_50
  /\ g' = [g EXCEPT !.actualHz = g.targetHz]
  /\ Returned(g.targetHz, phaseStep, tmr, dacEnabled, TRUE)
  /\ pc' = "idle"
  /\ UNCHANGED <<shared, tmr, timers, periodUs, lutsBuilt, dacEnabled, arg, tick,
                 env, createFailed, start>>

\* A configure_dac_wave that adds the new step to the old one (phaseStep += st)
dac_step_Accumulating ==
  /\ UNCHANGED v1vars
  /\ pc = "dac_step"
  /\ periodUs' = 50
  /\ phaseStep' = ClampStep(phaseStep + RoundStep(ClampDacHz(g.targetHz), SampleRate(50)))
  /\ pc' = "dac_enable"
  /\ UNCHANGED <<g, phase, ampScale, wf, tmr, timers, lutsBuilt, hw, arg, tick,
                 env, createFailed, hist, start>>

\* configure_dac_wave: periodUs = 50; ...; phaseStep = st
dac_step ==
  /\ UNCHANGED v1vars
  /\ pc = "dac_step"
  /\ periodUs' = 50
  /\ phaseStep' = ClampStep(RoundStep(ClampDacHz(g.targetHz), SampleRate(50)))
  /\ pc' = "dac_enable"
  /\ UNCHANGED <<g, phase, ampScale, wf, tmr, timers, lutsBuilt, hw, arg, tick,
                 env, createFailed, hist, start>>

\* configure_dac_wave: actual = fs * phaseStep / LUT_N; dac_output_enable(DAC_CHANNEL_1)
dac_enable ==
  /\ UNCHANGED v1vars
  /\ pc = "dac_enable"
  /\ dacEnabled' = TRUE
  /\ pc' = "tmr_stop"
  /\ UNCHANGED <<g, shared, tmr, timers, periodUs, lutsBuilt, pwmAttached, pwmHz, pwmDuty,
                 arg, tick, env, createFailed, hist, start>>

\* dac_timer_start: if (tmr) { esp_timer_stop; esp_timer_delete; tmr = nullptr; }
tmr_stop ==
  /\ UNCHANGED v1vars
  /\ pc = "tmr_stop"
  /\ tmr' = "null"
  /\ timers' = IF tmr # "null" THEN timers - 1 ELSE timers
  /\ pc' = "tmr_start"
  /\ UNCHANGED <<g, shared, periodUs, lutsBuilt, hw, arg, tick, env,
                 createFailed, hist, start>>

\* The handle esp_timer_create leaves in tmr, and whether the timer then runs:
\* on an error no handle is written, and esp_timer_start_periodic(nullptr) fails.
TimerCreated(ok) == IF ok THEN "running" ELSE "null"

\* dac_timer_start: esp_timer_create(&args, &tmr); esp_timer_start_periodic(tmr, perUs);
\* (both results ignored), then configure_dac_wave returns actual and
\* wavegen_apply stores it: g.actualHz = configure_dac_wave(...)
tmr_start ==
  /\ UNCHANGED v1vars
  /\ pc = "tmr_start"
  /\ \E ok \in (IF faults THEN BOOLEAN ELSE {TRUE}) :
       /\ tmr' = TimerCreated(ok)
       /\ createFailed' = (createFailed \/ ~ok)
       /\ timers' = IF ok THEN timers + 1 ELSE timers
       /\ fresh' = ok
       /\ Returned(ActualHz(SampleRate(periodUs), phaseStep), phaseStep,
                   TimerCreated(ok), dacEnabled, pwmAttached)
  /\ g' = [g EXCEPT !.actualHz = ActualHz(SampleRate(periodUs), phaseStep)]
  /\ phase0' = phase
  /\ since' = 0
  /\ pc' = "idle"
  /\ UNCHANGED <<shared, periodUs, lutsBuilt, hw, arg, tick, env>>

\* ------------------------------------------------------------------------
\* on_timer, the esp_timer callback
\* ------------------------------------------------------------------------
\* if (wf == Waveform::Square) return;
on_timer_guard ==
  /\ UNCHANGED v1vars
  /\ tmr = "running"
  /\ tpc = "idle"
  /\ ticks < tickLimit
  /\ ticks' = ticks + 1
  /\ tpc' = IF wf = "Square" THEN "idle" ELSE "body"
  /\ UNCHANGED <<g, shared, tmr, timers, periodUs, lutsBuilt, hw, dacOut, pc, arg,
                 env, createFailed, hist, start>>

\* An on_timer that also puts the phase step back to 1
on_timer_body_ResetsStep ==
  /\ UNCHANGED v1vars
  /\ tpc = "body"
  /\ dacOut' = ScaleSample(lut_get_sample(wf, phase % LUT_N), ampScale)
  /\ phase' = (phase + phaseStep) % LUT_N
  /\ phaseStep' = 1
  /\ fresh' = FALSE
  /\ since' = since + 1
  /\ tpc' = "idle"
  /\ UNCHANGED <<g, ampScale, wf, tmr, timers, periodUs, lutsBuilt, hw, pc, arg,
                 ticks, env, createFailed, hist, phase0>>

\* An on_timer that advances the accumulator before it reads the table
on_timer_body_AdvanceFirst ==
  /\ UNCHANGED v1vars
  /\ tpc = "body"
  /\ dacOut' = ScaleSample(lut_get_sample(wf, (phase + phaseStep) % LUT_N), ampScale)
  /\ phase' = (phase + phaseStep) % LUT_N
  /\ fresh' = FALSE
  /\ since' = since + 1
  /\ tpc' = "idle"
  /\ UNCHANGED <<g, phaseStep, ampScale, wf, tmr, timers, periodUs, lutsBuilt, hw, pc, arg,
                 ticks, env, createFailed, hist, phase0>>

\* An on_timer that advances the accumulator without the & (LUT_N - 1) mask
on_timer_body_Unmasked ==
  /\ UNCHANGED v1vars
  /\ tpc = "body"
  /\ dacOut' = ScaleSample(lut_get_sample(wf, phase % LUT_N), ampScale)
  /\ phase' = phase + phaseStep
  /\ fresh' = FALSE
  /\ since' = since + 1
  /\ tpc' = "idle"
  /\ UNCHANGED <<g, phaseStep, ampScale, wf, tmr, timers, periodUs, lutsBuilt, hw, pc, arg,
                 ticks, env, createFailed, hist, phase0>>

\* raw = lut_get_sample(wf, phase & 255); out = (raw * ampScale) >> 8;
\* dac_output_voltage(DAC_CHANNEL_1, out); phase = (phase + phaseStep) & 255;
on_timer_body ==
  /\ UNCHANGED v1vars
  /\ tpc = "body"
  /\ dacOut' = ScaleSample(lut_get_sample(wf, phase % LUT_N), ampScale)
  /\ phase' = (phase + phaseStep) % LUT_N
  /\ fresh' = FALSE
  /\ since' = since + 1
  /\ tpc' = "idle"
  /\ UNCHANGED <<g, phaseStep, ampScale, wf, tmr, timers, periodUs, lutsBuilt, hw, pc, arg,
                 ticks, env, createFailed, hist, phase0>>

WaveGenNext ==
  \/ wavegen_init
  \/ loop_call_apply
  \/ apply_amp
  \/ apply_wf
  \/ sq_stop
  \/ sq_dacoff
  \/ sq_detach
  \/ sq_attach
  \/ dac_step
  \/ dac_enable
  \/ tmr_stop
  \/ tmr_start
  \/ on_timer_guard
  \/ on_timer_body

\* ========================================================================
\* The discrete-globals engine (main_v1.ino)
\* ========================================================================
FREQ_MIN == 1
FREQ_MAX == 5000
FREQ_STEP == 25
AMP_STEP == 16
AMP_MIN == 0
AMP_MAX == 255

clamp(x, lo, hi) == IF x < lo THEN lo ELSE IF x > hi THEN hi ELSE x

\* C integer division, truncating toward zero
TruncDiv(a, b) == IF a >= 0 THEN a \div b ELSE -((-a) \div b)

\* buildLUTs: lroundf((sinf(2 pi i / 256) * 0.5 + 0.5) * 255) yields the same
\* 256 codes as SineCodes; the triangle is lroundf(tri * 255) with p = i / 255
lutSine(i) == SineCodes[i + 1]
lutTri(i) == IF 2 * i < 255 THEN 2 * i ELSE 2 * (255 - i)
lutSaw(i) == (i * 255) \div (LUT_N - 1)

\* out = 128 + ((base - 128) * amplitude) / 255, clamped to 0..255
applyAmplitude(base, amp) == clamp(128 + TruncDiv((base - 128) * amp, 255), 0, 255)

\* sampleRate = fHz * 256; periodUs = 1e6 / sampleRate clamped to [20, 50000], rounded
calcTimerPeriodUs(fHz) ==
  LET sr == IF fHz * LUT_N < 1 THEN 1 ELSE fHz * LUT_N
  IN  IF 1000000 < 20 * sr THEN 20
      ELSE IF 1000000 > 50000 * sr THEN 50000
      ELSE (2 * 1000000 + sr) \div (2 * sr)

NextMode(m) ==
  CASE m = "MODE_SINE" -> "MODE_TRI"
    [] m = "MODE_TRI"  -> "MODE_SAW"
    [] m = "MODE_SAW"  -> "MODE_SQUARE"
    [] OTHER           -> "MODE_SINE"

InitV1 ==
  /\ mode = "MODE_SINE"
  /\ frequencyHz = 500
  /\ amplitude = 160
  /\ waveTimer = "null"
  /\ phaseIdx = 0
  /\ timerPeriodUs = 20
  /\ timerActive = FALSE
  /\ timerArmed = FALSE
  /\ dacChEnabled = FALSE
  /\ dacCode = 0
  /\ ledcAttached = FALSE
  /\ ledcHz = 0
  /\ lpc = "setup"
  /\ cbTicks = 0
  /\ presses = 0

v1user == <<mode, frequencyHz, amplitude>>
v1timer == <<waveTimer, phaseIdx, timerPeriodUs, timerActive, timerArmed>>
v1out == <<dacChEnabled, dacCode, ledcAttached, ledcHz>>

\* setup(): buildLUTs(); esp_timer_create; on an error print and halt for ever,
\* else applyMode()
setup ==
  /\ UNCHANGED wgvars
  /\ lpc = "setup"
  /\ \E ok \in BOOLEAN :
       /\ waveTimer' = IF ok THEN "created" ELSE "null"
       /\ lpc' = IF ok THEN "stopTimerWave" ELSE "halted"
  /\ UNCHANGED <<v1user, phaseIdx, timerPeriodUs, timerActive, timerArmed, v1out,
                 cbTicks, presses>>

\* loop(): MODE pressed: mode = (mode + 1) % 4; applyMode()
press_mode ==
  /\ UNCHANGED wgvars
  /\ lpc = "loop" /\ presses < MaxPresses
  /\ mode' = NextMode(mode)
  /\ presses' = presses + 1
  /\ lpc' = "stopTimerWave"
  /\ UNCHANGED <<frequencyHz, amplitude, v1timer, v1out, cbTicks>>

\* loop(): F+ or F- pressed: frequencyHz = clampf(frequencyHz +- 25, 1, 5000); applyMode()
press_freq ==
  /\ UNCHANGED wgvars
  /\ lpc = "loop" /\ presses < MaxPresses
  /\ \E d \in {FREQ_STEP, -FREQ_STEP} :
       frequencyHz' = clamp(frequencyHz + d, FREQ_MIN, FREQ_MAX)
  /\ presses' = presses + 1
  /\ lpc' = "stopTimerWave"
  /\ UNCHANGED <<mode, amplitude, v1timer, v1out, cbTicks>>

\* loop(): A+ or A- pressed: amplitude = clampi(amplitude +- 16, 0, 255); applyMode()
press_amp ==
  /\ UNCHANGED wgvars
  /\ lpc = "loop" /\ presses < MaxPresses
  /\ \E d \in {AMP_STEP, -AMP_STEP} :
       amplitude' = clamp(amplitude + d, AMP_MIN, AMP_MAX)
  /\ presses' = presses + 1
  /\ lpc' = "stopTimerWave"
  /\ UNCHANGED <<mode, frequencyHz, v1timer, v1out, cbTicks>>

\* applyMode: stopTimerWave()
stopTimerWave ==
  /\ UNCHANGED wgvars
  /\ lpc = "stopTimerWave"
  /\ IF waveTimer # "null" /\ timerActive
     THEN timerArmed' = FALSE /\ timerActive' = FALSE
     ELSE UNCHANGED <<timerArmed, timerActive>>
  /\ lpc' = "stopSquareWave"
  /\ UNCHANGED <<v1user, waveTimer, phaseIdx, timerPeriodUs, v1out, cbTicks, presses>>

\* An applyMode whose stopSquareWave leaves the pin attached to the LEDC channel
stopSquareWave_NoDetach ==
  /\ UNCHANGED wgvars
  /\ lpc = "stopSquareWave"
  /\ lpc' = "dac_output_disable"
  /\ UNCHANGED <<v1user, v1timer, v1out, cbTicks, presses>>

\* applyMode: stopSquareWave(): ledcDetachPin; pin driven low
stopSquareWave ==
  /\ UNCHANGED wgvars
  /\ lpc = "stopSquareWave"
  /\ ledcAttached' = FALSE
  /\ lpc' = "dac_output_disable"
  /\ UNCHANGED <<v1user, v1timer, dacChEnabled, dacCode, ledcHz, cbTicks, presses>>

\* applyMode: dac_output_disable(DAC_CH); if (mode == MODE_SQUARE) ... else ...
dac_output_disable ==
  /\ UNCHANGED wgvars
  /\ lpc = "dac_output_disable"
  /\ dacChEnabled' = FALSE
  /\ lpc' = IF mode = "MODE_SQUARE" THEN "setSquareWave" ELSE "dac_output_enable"
  /\ UNCHANGED <<v1user, v1timer, dacCode, ledcAttached, ledcHz, cbTicks, presses>>

\* applyMode: setSquareWave(frequencyHz): ledcSetup(lroundf(fHz)); ledcAttachPin; ledcWrite
setSquareWave ==
  /\ UNCHANGED wgvars
  /\ lpc = "setSquareWave"
  /\ ledcHz' = frequencyHz
  /\ ledcAttached' = TRUE
  /\ lpc' = "loop"
  /\ UNCHANGED <<v1user, v1timer, dacChEnabled, dacCode, cbTicks, presses>>

\* applyMode: dac_output_enable(DAC_CH); timerPeriodUs = calcTimerPeriodUs(frequencyHz)
dac_output_enable ==
  /\ UNCHANGED wgvars
  /\ lpc = "dac_output_enable"
  /\ dacChEnabled' = TRUE
  /\ timerPeriodUs' = calcTimerPeriodUs(frequencyHz)
  /\ lpc' = "startTimerWave"
  /\ UNCHANGED <<v1user, waveTimer, phaseIdx, timerActive, timerArmed, dacCode,
                 ledcAttached, ledcHz, cbTicks, presses>>

\* applyMode: startTimerWave(): if (!waveTimer) return; phaseIdx = 0;
\* esp_timer_start_periodic; timerActive = true
startTimerWave ==
  /\ UNCHANGED wgvars
  /\ lpc = "startTimerWave"
  /\ IF waveTimer = "null"
     THEN UNCHANGED <<phaseIdx, timerArmed, timerActive>>
     ELSE phaseIdx' = 0 /\ timerArmed' = TRUE /\ timerActive' = TRUE
  /\ lpc' = "loop"
  /\ UNCHANGED <<v1user, waveTimer, timerPeriodUs, v1out, cbTicks, presses>>

\* the base sample waveTimerCb picks for the mode
baseSample(m, idx) ==
  CASE m = "MODE_SINE" -> lutSine(idx)
    [] m = "MODE_TRI"  -> lutTri(idx)
    [] m = "MODE_SAW"  -> lutSaw(idx)
    [] OTHER           -> 128

\* waveTimerCb: one sample to the DAC, phaseIdx = (phaseIdx + 1) & 0xFF
waveTimerCb ==
  /\ UNCHANGED wgvars
  /\ timerArmed
  /\ cbTicks < MaxTicks
  /\ dacCode' = applyAmplitude(baseSample(mode, phaseIdx % 256), amplitude)
  /\ phaseIdx' = (phaseIdx + 1) % 256
  /\ cbTicks' = cbTicks + 1
  /\ UNCHANGED <<v1user, waveTimer, timerPeriodUs, timerActive, timerArmed,
                 dacChEnabled, ledcAttached, ledcHz, lpc, presses>>

NextV1 ==
  \/ setup
  \/ press_mode
  \/ press_freq
  \/ press_amp
  \/ stopTimerWave
  \/ stopSquareWave
  \/ dac_output_disable
  \/ setSquareWave
  \/ dac_output_enable
  \/ startTimerWave
  \/ waveTimerCb

Init == InitWaveGen /\ faults = FALSE /\ tickLimit = MaxTicks /\ InitV1
Next == WaveGenNext
Spec == Init /\ [][Next]_vars

\* The same engine on hardware where esp_timer_create may return an error
InitFault == InitWaveGen /\ faults = TRUE /\ tickLimit = MaxTicks /\ InitV1
SpecFault == InitFault /\ [][Next]_vars

\* The discrete-globals engine
SpecV1 == Init /\ [][NextV1]_vars

\* ------------------------------------------------------------------------
\* The sample clock on its own: the engine between two wavegen_apply calls
\* ------------------------------------------------------------------------
\* The state a completed wavegen_apply(s) leaves for a non-square s, with the
\* accumulator at p (wavegen_apply never writes phase, so p is whatever the
\* ticks before the call left)
AfterApply(s, p, limit) ==
  LET st == ClampStep(RoundStep(ClampDacHz(s.targetHz), SampleRate(50)))
      act == ActualHz(SampleRate(50), st)
      a == ClampAmp(s.amp)
  IN  /\ g = [s EXCEPT !.amp = a, !.actualHz = act]
      /\ phase = p
      /\ phaseStep = st
      /\ ampScale = ToU8(a)
      /\ wf = s.wave
      /\ tmr = "running"
      /\ timers = 1
      /\ periodUs = 50
      /\ lutsBuilt = TRUE
      /\ dacEnabled = TRUE
      /\ dacOut = 0
      /\ pwmAttached = FALSE
      /\ pwmHz = 0
      /\ pwmDuty = 0
      /\ pc = "idle"
      /\ arg = s
      /\ tpc = "idle"
      /\ ticks = 0
      /\ createFailed = FALSE
      /\ last = [s |-> s, snap |-> Snap(act, st, ToU8(a), s.wave, "running", TRUE, FALSE)]
      /\ repeated = FALSE
      /\ fresh = TRUE
      /\ phase0 = p
      /\ since = 0
      /\ faults = FALSE
      /\ tickLimit = limit

\* Only the timer callback runs
NextTick == on_timer_guard \/ on_timer_body

\* Every table, three amplitudes, the three steps 1, 3 and 64, every start phase
InitTick ==
  /\ \E w \in Waveforms \ {"Square"}, f \in InFreqs, a \in TickAmps, p \in 0..(LUT_N - 1) :
       AfterApply(Settings(w, f, a, 0), p, MaxRunTicks)
  /\ InitV1
SpecTick == InitTick /\ [][NextTick]_vars

\* One tick for every sawtooth sample (every raw code) and every amplitude
InitScale ==
  /\ \E a \in 0..255, p \in 0..(LUT_N - 1) :
       AfterApply(Settings("Saw", 3125, a, 0), p, MaxTicks)
  /\ InitV1
SpecScale == InitScale /\ [][NextTick]_vars

\* ========================================================================
\* Properties of the settings-struct engine
\* ========================================================================
InApply == pc \notin {"boot", "idle"}
AnalogRequested == g.wave # "Square"

\* What a completed call has left behind, read off the state
CurSnap == Snap(g.actualHz, phaseStep, ampScale, wf, tmr, dacEnabled, pwmAttached)

\* C1: after any completed wavegen_apply exactly one of the DAC channel and the
\* PWM channel is enabled, never both and never neither.
ExactlyOneOutputAfterApply == (pc = "idle") => (dacEnabled # pwmAttached)

\* C2: every wavegen_apply that (re)starts the sample clock resets the phase
\* accumulator, so the first sample after the restart is table entry 0.
PhaseZeroAtRestart == (tmr = "running" /\ fresh) => (phase = 0)

\* The three values a tick reads, as left by the last completed call and as the
\* call in progress will leave them
OldCfg == <<last.snap.phaseStep, last.snap.ampScale, last.snap.wf>>
NewCfg ==
  IF InApply
  THEN <<IF arg.wave = "Square" THEN last.snap.phaseStep
         ELSE ClampStep(RoundStep(ClampDacHz(arg.targetHz), SampleRate(50))),
         ToU8(ClampAmp(arg.amp)), arg.wave>>
  ELSE OldCfg

\* C3: whenever a tick can fire, phaseStep, ampScale and wf are all three the
\* old values or all three the new values, never a mixture.
TickSeesOldOrNew == (tmr = "running") => (<<phaseStep, ampScale, wf>> \in {OldCfg, NewCfg})

\* C4: in every state, the steps inside wavegen_apply included, at most one of
\* the DAC channel and the PWM channel is driving.
AtMostOneOutputDriving == ~(dacEnabled /\ pwmAttached)

\* C5: for Square the stored actualHz is the requested frequency clamped to
\* [1, PWM_MAX_HZ], the frequency the PWM channel was set up with.
SquareActualIsClamped ==
  (pc = "idle" /\ g.wave = "Square") =>
     /\ g.actualHz = ClampSquareHz(arg.targetHz)
     /\ pwmHz = PwmFreq(g.actualHz)

\* C6: phaseStep is within [1, STEP_MAX] in every reachable state.
PhaseStepInRange == phaseStep \in 1..STEP_MAX

\* an out-of-range analog request has been applied and the ceiling was hit
PhaseStepCeilingHit ==
  /\ pc = "idle" /\ AnalogRequested
  /\ arg.targetHz > Hz(DAC_MAX_HZ)
  /\ phaseStep = STEP_MAX

\* x lies in [lo, hi], else the nearer end
Clamped(x, lo, hi) == IF x < lo THEN lo ELSE IF x > hi THEN hi ELSE x

\* n is t * N / fs rounded to the nearest integer, halves up:
\* n - 1/2 <= t * N / fs < n + 1/2   (t in sixteenths of a hertz)
IsNearest(n, t, fs) ==
  /\ (2 * n - 1) * Hz(fs) <= 2 * t * LUT_N
  /\ 2 * t * LUT_N < (2 * n + 1) * Hz(fs)

\* C7: for a non-square waveform, phaseStep is the clamped request times N / fs,
\* rounded to nearest (halves up) and clamped to [1, 64]; actualHz is exactly
\* fs * phaseStep / N; a request above DAC_MAX_HZ gives what 20000 Hz gives.
AnalogQuantisation ==
  (pc = "idle" /\ AnalogRequested) =>
     /\ \E n \in 0..(LUT_N + 1) :
          /\ IsNearest(n, Clamped(arg.targetHz, Hz(1), Hz(20000)), 20000)
          /\ phaseStep = Clamped(n, 1, 64)
     /\ g.actualHz * LUT_N = Hz(20000) * phaseStep
     /\ (arg.targetHz > Hz(20000)) => (phaseStep = 64 /\ g.actualHz = Hz(5000))

\* a request whose ideal step is exactly 2.5 has been applied
HalfStepApplied ==
  /\ pc = "idle" /\ AnalogRequested
  /\ arg.targetHz = 3125
  /\ phaseStep = 3

TimerFailureIsFatal == (createFailed /\ pc = "idle") => ~(dacEnabled /\ tmr = "null")

\* ========================================================================
\* Properties of the timer callbacks
\* ========================================================================
\* C10: a tick that fires while the active waveform is Square is a no-op: it
\* writes nothing to the DAC and leaves the phase accumulator unchanged.
\* In the discrete-globals engine:
SquareTickIsNoOp ==
  [][(cbTicks' # cbTicks /\ mode = "MODE_SQUARE") =>
        (phaseIdx' = phaseIdx /\ dacCode' = dacCode)]_vars

\* The same for on_timer of the settings-struct engine
OnTimerSquareIsNoOp ==
  [][(ticks' # ticks /\ wf = "Square") =>
        (tpc' = "idle" /\ phase' = phase /\ dacOut' = dacOut)]_vars

ScaledSampleBounds ==
  [][(since' # since) =>
       LET raw == lut_get_sample(wf, phase)
       IN  /\ raw \in 0..255 /\ ampScale \in 0..255
           /\ dacOut' \in 0..255
           /\ (ampScale = 0) => (dacOut' = 0)
           /\ (ampScale = 255) => (raw - dacOut' \in {-1, 0, 1})]_vars

\* the largest sample at full amplitude has come out one below itself
FullScaleOneBelow == since = 1 /\ wf = "Saw" /\ phase0 = 255 /\ ampScale = 255 /\ dacOut = 254

TickFrame ==
  [][/\ (ticks' # ticks \/ tpc' # tpc) =>
          UNCHANGED <<phaseStep, ampScale, wf, g, tmr, timers, periodUs, hw, lutsBuilt>>
     /\ lutsBuilt => lutsBuilt']_vars

\* a tick has emitted a sample and advanced the phase, and a wavegen_apply is
\* between storing the new step and restarting the timer
TickDuringApply ==
  /\ pc \in {"dac_enable", "tmr_stop"} /\ tpc = "idle" /\ since = 1
  /\ phase = (phase0 + phaseStep) % LUT_N /\ phaseStep = 64

FrequencyChangeOnly ==
  /\ InApply
  /\ last.snap.running
  /\ arg.wave # "Square" /\ arg.wave = last.s.wave
  /\ arg.amp = last.s.amp
  /\ arg.targetHz # last.s.targetHz

\* C14: a frequency change in analog mode is made through the phase step only:
\* throughout the call the sample-timer period stays at its fixed value and the
\* running timer is neither stopped nor restarted.
FrequencyChangeKeepsTimer == FrequencyChangeOnly => (periodUs = 50 /\ tmr = "running")

Peak(T(_)) == CHOOSE m \in 0..255 :
  /\ \E i \in 0..(LUT_N - 1) : T(i) = m
  /\ \A i \in 0..(LUT_N - 1) : T(i) <= m

\* C16: the triangle table ramps from 0 up to its peak over the first half
\* (indices 0 .. N/2) and back down to 0 over the second half, and its peak is
\* the peak of the sine table, 255.
TrianglePeakIsSinePeak ==
  lutsBuilt =>
    /\ lut_tri(0) = 0
    /\ \A i \in 0..(LUT_N \div 2 - 1) : lut_tri(i) <= lut_tri(i + 1)
    /\ \A i \in (LUT_N \div 2)..(LUT_N - 2) : lut_tri(i) >= lut_tri(i + 1)
    /\ lut_tri(LUT_N - 1) = 0
    /\ Peak(lut_sin) = 255
    /\ Peak(lut_tri) = Peak(lut_sin)

\* ========================================================================
\* Properties of the sample timer
\* ========================================================================
\* C19: after every completed wavegen_apply the sample timer is running exactly
\* when the applied waveform is not Square, and in every state at most one timer
\* instance exists, the one tmr refers to: the previous timer is deleted before
\* a new one is created.
OneTimerIffAnalog ==
  /\ timers \in {0, 1}
  /\ (timers = 1) <=> (tmr # "null")
  /\ (pc = "idle") => ((tmr = "running") <=> (g.wave # "Square"))

\* The instance count on its own
AtMostOneTimer == timers \in {0, 1} /\ ((timers = 1) <=> (tmr # "null"))

\* ========================================================================
\* Properties of the discrete-globals engine
\* ========================================================================
\* C20: applyMode has stopped everything (timer stopped, PWM detached, DAC
\* disabled) when it comes to enable the selected path; when it returns exactly
\* one of DAC with running timer and PWM is active and timerActive is true
\* exactly when mode is not MODE_SQUARE; and whenever the timer is started
\* phaseIdx is 0.
ApplyModeExclusive ==
  [][/\ (lpc' \in {"setSquareWave", "dac_output_enable"}) =>
          (~timerArmed' /\ ~timerActive' /\ ~ledcAttached' /\ ~dacChEnabled')
     /\ (lpc' = "loop") =>
          /\ (dacChEnabled' /\ timerArmed') # ledcAttached'
          /\ ~ledcAttached' => (dacChEnabled' /\ timerArmed')
          /\ ledcAttached' => (~dacChEnabled' /\ ~timerArmed')
          /\ timerActive' <=> (mode' # "MODE_SQUARE")
          /\ timerActive' <=> timerArmed'
     /\ (timerArmed' /\ ~timerArmed) => (phaseIdx' = 0)]_vars

\* MODE has been pressed round to MODE_SINE again: the timer was restarted after
\* the square wave, with the PWM detached
BackToSineAfterSquare ==
  /\ lpc = "loop" /\ presses = 4 /\ mode = "MODE_SINE" /\ frequencyHz = 500 /\ amplitude = 160
  /\ timerArmed /\ timerActive /\ dacChEnabled /\ ~ledcAttached /\ ledcHz = 500

====
